---- MODULE Spec2Model ----
(***************************************************************************)
(* A model of the gallery's thumbnail engine (gallery/imgutil.py) and of   *)
(* its protected media views (gallery/views.py).                           *)
(*                                                                         *)
(*   SpecEngine  one make_thumbnail call at a time, all geometries         *)
(*   SpecRace    two make_thumbnail calls racing on the thumbnail paths    *)
(*   SpecServe   serve_private_media, one call per step                    *)
(*   SpecView    resized_photo / original_photo requests                   *)
(***************************************************************************)
EXTENDS Integers, Sequences, FiniteSets, TLC

VARIABLES
    call,       \* make_thumbnail: the frame of each running call
    fs,         \* the thumbnail files on disk, by path
    settings,   \* django.conf.settings: DEBUG, SENDFILE_ROOT
    req,        \* serve_private_media: the arguments of the last call
    out,        \* serve_private_media: what the last call returned or raised
    acl,        \* Photo.objects.allowed_for_user, as a set of <<user, pk>>
    view,       \* resized_photo / original_photo: the frame of each request
    thumbs      \* the presets' thumbnails that exist, by photo

vars == <<call, fs, settings, req, out, acl, view, thumbs>>

None == "None"

\* ---------------------------------------------------------------- bounds

MaxDim == 4
MaxOrientation == 10
NChunks == 2
MaxPathLen == 4
MaxDate == 1
MaxSize == 1
NPhotos == 2

\* ------------------------------------------------------- gallery/imgutil.py

(* An image is its size, its format tag and the affine map that sends one   *)
(* of its pixels (x, y) to the pixel of the decoded file it shows:          *)
(*   src_x = o[1] + m[1]*x + m[2]*y,   src_y = o[2] + m[3]*x + m[4]*y.      *)
Image_open(src) ==
    [size |-> src.size, format |-> src.format, o |-> <<0, 0>>, m |-> <<1, 0, 0, 1>>]

\* The image whose pixel (x, y) is pixel t + n*(x, y) of im: a new Image
\* object, which carries no format tag.
Remap(im, size, t, n) ==
    [size   |-> size,
     format |-> None,
     o      |-> <<im.o[1] + im.m[1] * t[1] + im.m[2] * t[2],
                  im.o[2] + im.m[3] * t[1] + im.m[4] * t[2]>>,
     m      |-> <<im.m[1] * n[1] + im.m[2] * n[3], im.m[1] * n[2] + im.m[2] * n[4],
                  im.m[3] * n[1] + im.m[4] * n[3], im.m[3] * n[2] + im.m[4] * n[4]>>]

transpose(im, method) ==
    LET w == im.size[1]
        h == im.size[2]
    IN  CASE method = "FLIP_LEFT_RIGHT" -> Remap(im, <<w, h>>, <<w - 1, 0>>, <<-1, 0, 0, 1>>)
          [] method = "FLIP_TOP_BOTTOM" -> Remap(im, <<w, h>>, <<0, h - 1>>, <<1, 0, 0, -1>>)
          [] method = "ROTATE_180" -> Remap(im, <<w, h>>, <<w - 1, h - 1>>, <<-1, 0, 0, -1>>)
          [] method = "ROTATE_90" -> Remap(im, <<h, w>>, <<w - 1, 0>>, <<0, -1, 1, 0>>)
          [] method = "ROTATE_270" -> Remap(im, <<h, w>>, <<0, h - 1>>, <<0, 1, -1, 0>>)

crop(im, box) ==
    Remap(im, <<box[3] - box[1], box[4] - box[2]>>, <<box[1], box[2]>>, <<1, 0, 0, 1>>)

\* The tuple of transforms, entry k of the source at position k + 1: None
\* (not callable), or a lambda and the transposes it applies, in order.
Lambda(methods) == [callable |-> TRUE, methods |-> methods]

exif_rotations ==
    << [callable |-> FALSE, methods |-> << >>],
       Lambda(<< >>),
       Lambda(<<"FLIP_LEFT_RIGHT">>),
       Lambda(<<"ROTATE_180">>),
       Lambda(<<"FLIP_TOP_BOTTOM">>),
       Lambda(<<"ROTATE_270", "FLIP_LEFT_RIGHT">>),
       Lambda(<<"ROTATE_270">>),
       Lambda(<<"ROTATE_90", "FLIP_LEFT_RIGHT">>),
       Lambda(<<"ROTATE_90">>) >>

\* Python's tuple subscript: an index below zero counts from the end, and
\* one outside -len .. len-1 raises IndexError.
Subscript(tuple, i) ==
    IF i >= 0 /\ i < Len(tuple) THEN [raised |-> FALSE, value |-> tuple[i + 1]]
    ELSE IF i < 0 /\ i >= -Len(tuple)
    THEN [raised |-> FALSE, value |-> tuple[Len(tuple) + i + 1]]
    ELSE [raised |-> TRUE, value |-> tuple[1]]

RECURSIVE ApplyAll(_, _)
ApplyAll(im, methods) ==
    IF methods = << >> THEN im
    ELSE ApplyAll(transpose(im, Head(methods)), Tail(methods))

\* Lines 31-37. A missing EXIF block or tag (NoTag), an index out of range
\* and the call of the entry None all raise inside the try, and the image
\* stays as it is.
NoTag == MaxOrientation + 1

AutoRotate(im, orientation) ==
    IF im.format # "JPEG" THEN im
    ELSE IF orientation = NoTag THEN im
    ELSE LET f == Subscript(exif_rotations, orientation)
         IN  IF f.raised \/ ~f.value.callable THEN im
             ELSE ApplyAll(im, f.value.methods)

target_height_swapped(image_width, thumb_height, thumb_width) ==
    (image_width * thumb_width) \div thumb_height

target_height(image_width, thumb_height, thumb_width) ==
    (image_width * thumb_height) \div thumb_width

target_width(image_height, thumb_width, thumb_height) ==
    (image_height * thumb_width) \div thumb_height

\* Lines 39-49: the box handed to image.crop, or NoBox when nothing is cropped.
NoBox == << >>

CropBox(im, size, docrop) ==
    LET thumb_width == size[1]
        thumb_height == size[2]
        image_width == im.size[1]
        image_height == im.size[2]
    IN  IF ~docrop THEN NoBox
        ELSE IF thumb_width * image_height > image_width * thumb_height
        THEN LET th == target_height(image_width, thumb_height, thumb_width)
                 top == (image_height - th) \div 2
             IN  <<0, top, image_width, top + th>>
        ELSE IF thumb_width * image_height < image_width * thumb_height
        THEN LET tw == target_width(image_height, thumb_width, thumb_height)
                 left == (image_width - tw) \div 2
             IN  <<left, 0, left + tw, image_height>>
        ELSE NoBox

PreCrop(im, size, docrop) ==
    LET box == CropBox(im, size, docrop)
    IN  IF box = NoBox THEN im ELSE crop(im, box)

Max(a, b) == IF a >= b THEN a ELSE b

\* Image.thumbnail: shrink to fit within size, never enlarge; the image is
\* changed in place, so it keeps its format tag.
thumbnail(im, size) ==
    LET x0 == im.size[1]
        y0 == im.size[2]
        y1 == IF x0 > size[1] THEN Max((y0 * size[1]) \div x0, 1) ELSE y0
        x1 == IF x0 > size[1] THEN size[1] ELSE x0
        x2 == IF y1 > size[2] THEN Max((x1 * size[2]) \div y1, 1) ELSE x1
        y2 == IF y1 > size[2] THEN size[2] ELSE y1
    IN  [im EXCEPT !.size = <<x2, y2>>]

Procs == {1, 2}
ThumbPaths == {"t1", "t2"}

NoSrc == [readable |-> FALSE, size |-> <<0, 0>>, format |-> None, orientation |-> NoTag]
NoImage == [size |-> <<0, 0>>, format |-> None, o |-> <<0, 0>>, m |-> <<1, 0, 0, 1>>]

Idle ==
    [pc |-> "idle", src |-> NoSrc, thumbpath |-> None, size |-> <<0, 0>>, crop |-> FALSE,
     decoded |-> NoImage, rotated |-> NoImage, box |-> NoBox, precrop |-> NoImage,
     image |-> NoImage, off |-> 0, failed |-> None, err |-> None]

\* A file is absent or the sequence of its chunks: "d" a chunk of encoded
\* data, "0" a hole left by a write past the end.
Absent == <<"absent">>
Complete == [i \in 1..NChunks |-> "d"]

\* write(2) of one chunk at chunk offset off: the file grows to hold it.
WriteAt(file, off) ==
    [i \in 1..Max(Len(file), off + 1) |->
        IF i = off + 1 THEN "d" ELSE IF i <= Len(file) THEN file[i] ELSE "0"]

\* Lines 28-52: open, auto-rotate, pre-crop and shrink. None of it touches
\* the disk; an unreadable source raises out of Image.open.
Call(p, src, thumbpath, size, docrop) ==
    /\ call[p].pc = "idle"
    /\ IF src.readable
       THEN LET decoded == Image_open(src)
                rotated == AutoRotate(decoded, src.orientation)
                box == CropBox(rotated, size, docrop)
                pre == PreCrop(rotated, size, docrop)
            IN  call' = [call EXCEPT ![p] =
                    [Idle EXCEPT !.pc = "save", !.src = src, !.thumbpath = thumbpath,
                                 !.size = size, !.crop = docrop, !.decoded = decoded,
                                 !.rotated = rotated, !.box = box, !.precrop = pre,
                                 !.image = thumbnail(pre, size)]]
       ELSE call' = [call EXCEPT ![p] =
                    [Idle EXCEPT !.pc = "raised", !.src = src, !.thumbpath = thumbpath,
                                 !.size = size, !.crop = docrop, !.failed = "open",
                                 !.err = "IOError"]]
    /\ UNCHANGED <<fs, settings, req, out, acl, view, thumbs>>

\* Line 54, image.save opening thumbpath for writing: the file is created or
\* truncated, or the open fails and the file is left as it was.
SaveOpen(p) ==
    /\ call[p].pc = "save"
    /\ \/ /\ fs' = [fs EXCEPT ![call[p].thumbpath] = << >>]
          /\ call' = [call EXCEPT ![p].pc = "write"]
       \/ /\ call' = [call EXCEPT ![p].pc = "except", ![p].failed = "save"]
          /\ UNCHANGED fs
    /\ UNCHANGED <<settings, req, out, acl, view, thumbs>>

\* Line 54, the encoder writing the next chunk, or the write failing.
SaveWrite(p) ==
    /\ call[p].pc = "write"
    /\ call[p].off < NChunks
    /\ \/ /\ fs' = [fs EXCEPT ![call[p].thumbpath] = WriteAt(@, call[p].off)]
          /\ call' = [call EXCEPT ![p].off = @ + 1]
       \/ /\ call' = [call EXCEPT ![p].pc = "except", ![p].failed = "save"]
          /\ UNCHANGED fs
    /\ UNCHANGED <<settings, req, out, acl, view, thumbs>>

\* Line 54, the last chunk written: save returns.
SaveDone(p) ==
    /\ call[p].pc = "write"
    /\ call[p].off = NChunks
    /\ call' = [call EXCEPT ![p].pc = "returned"]
    /\ UNCHANGED <<fs, settings, req, out, acl, view, thumbs>>

\* Lines 55-57. The module never imports os (lines 1-11), so evaluating
\* os.unlink raises NameError: nothing is unlinked, the bare raise is never
\* reached, and NameError is what the caller gets.
Except(p) ==
    /\ call[p].pc = "except"
    /\ call' = [call EXCEPT ![p].pc = "raised", ![p].err = "NameError"]
    /\ UNCHANGED <<fs, settings, req, out, acl, view, thumbs>>

\* The caller takes the result; the frame is gone.
Return(p) ==
    /\ call[p].pc \in {"returned", "raised"}
    /\ call' = [call EXCEPT ![p] = Idle]
    /\ UNCHANGED <<fs, settings, req, out, acl, view, thumbs>>

\* ----------------------------------------------------- gallery/views.py

\* A string is the sequence of its characters.
Alphabet == {"/", "d", "x"}
Strings(n) == UNION {[1..k -> Alphabet] : k \in 0..n}

\* path must be an absolute path.
Paths == {s \in Strings(MaxPathLen) : Len(s) >= 1 /\ s[1] = "/"}
Roots == {<< >>, <<"/", "d">>, <<"/", "d", "/">>}

startswith(s, prefix) ==
    Len(prefix) <= Len(s) /\ SubSeq(s, 1, Len(prefix)) = prefix

StripRootAndSlash(path, root) == SubSeq(path, Len(root) + 2, Len(path))

\* path[len(settings.SENDFILE_ROOT):]
StripRoot(path, root) == SubSeq(path, Len(root) + 1, Len(path))

\* statobj.st_mtime is a float: the model counts it in ticks of half a
\* second. An HTTP date counts whole seconds.
TicksPerSec == 2
http_date(mtime) == mtime \div TicksPerSec

\* The If-Modified-Since header: absent, text that parses to no date, or a
\* date with an optional "; length=" (NoLength when it has none).
NoLength == MaxSize + 1
Headers ==
    {[kind |-> "absent", date |-> 0, length |-> NoLength],
     [kind |-> "garbage", date |-> 0, length |-> NoLength]}
    \cup {[kind |-> "date", date |-> d, length |-> n] : d \in 0..MaxDate, n \in 0..NoLength}

\* django.views.static.was_modified_since(header, mtime, size)
was_modified_since(header, mtime, size) ==
    \/ header.kind # "date"
    \/ header.length # NoLength /\ header.length # size
    \/ mtime > header.date * TicksPerSec

NotModifiedSwapped(header, st) == ~was_modified_since(header, st.st_size, st.st_mtime)

\* Line 196: the file counts as not modified.
NotModified(header, st) == ~was_modified_since(header, st.st_mtime, st.st_size)

\* mimetypes.guess_type: no path of the model carries an extension, so the
\* type and the encoding are both None.
guess_type(path) == [mimetype |-> None, encoding |-> None]

Unset == [set |-> FALSE, value |-> << >>]
Header(v) == [set |-> TRUE, value |-> v]

\* A response: its status, body and the headers the views set. value is a
\* string, or a number of seconds or bytes.
Response(status, body, mimetype) ==
    [status |-> status, body |-> body, mimetype |-> mimetype,
     sendfile |-> Unset, last_modified |-> Unset, content_length |-> Unset,
     content_encoding |-> Unset, content_disposition |-> Unset]

Raised(kind) == [kind |-> kind, response |-> Response(0, << >>, None)]
Returned(response) == [kind |-> "response", response |-> response]

\* The bytes of a file of that size.
Content(st) == [i \in 1..st.st_size |-> "b"]

UnderRootSwapped(path, root) == startswith(root, path)

\* Line 207: the check that the file is under SENDFILE_ROOT.
UnderRoot(path, root) == startswith(path, root)

\* Lines 188-220. exists and st are what os.path.exists and os.stat answer.
serve_private_media(S, header, path, exists, st) ==
    IF ~exists THEN Raised("Http404")
    ELSE
    LET guessed == guess_type(path)
        mimetype == IF guessed.mimetype = None THEN "application/octet-stream"
                    ELSE guessed.mimetype
        base == IF S.DEBUG THEN Response(200, Content(st), mimetype)
                ELSE [Response(200, << >>, mimetype) EXCEPT !.sendfile =
                        Header(IF S.SENDFILE_ROOT # << >>
                               THEN StripRoot(path, S.SENDFILE_ROOT) ELSE path)]
        dated == [base EXCEPT !.last_modified = Header(http_date(st.st_mtime))]
        sized == IF st.isreg THEN [dated EXCEPT !.content_length = Header(st.st_size)]
                 ELSE dated
        encoded == IF guessed.encoding # None
                   THEN [sized EXCEPT !.content_encoding = Header(guessed.encoding)]
                   ELSE sized
    IN  IF NotModified(header, st) THEN Returned(Response(304, << >>, mimetype))
        ELSE IF S.DEBUG /\ ~st.isreg THEN Raised("IOError")
        ELSE IF ~S.DEBUG /\ S.SENDFILE_ROOT # << >> /\ ~UnderRoot(path, S.SENDFILE_ROOT)
        THEN Raised("ValueError")
        ELSE Returned(encoded)

Stats ==
    [st_mtime : 0..(MaxDate * TicksPerSec + 1), st_size : 0..MaxSize, isreg : BOOLEAN]

NoReq ==
    [path |-> << >>, header |-> [kind |-> "absent", date |-> 0, length |-> NoLength],
     exists |-> FALSE, st |-> [st_mtime |-> 0, st_size |-> 0, isreg |-> FALSE]]

\* One call of serve_private_media(request, path).
Serve(header, path, exists, st) ==
    /\ out.kind = "none"
    /\ req' = [path |-> path, header |-> header, exists |-> exists, st |-> st]
    /\ out' = serve_private_media(settings, header, path, exists, st)
    /\ UNCHANGED <<call, fs, settings, acl, view, thumbs>>

\* The response or the exception has left the view: the next request.
ServeReturn ==
    /\ out.kind # "none"
    /\ req' = NoReq
    /\ out' = Raised("none")
    /\ UNCHANGED <<call, fs, settings, acl, view, thumbs>>

\* The users: one holding the permission gallery.view, two without it.
Users == {"staff", "alice", "anonymous"}
has_perm(user) == user = "staff"

\* The photos of the database, by primary key; 0 is the key of no photo.
Photos == 1..NPhotos
Keys == 0..NPhotos

\* Lines 130-135: the photo, or none (get_object_or_404 raises Http404).
\* allowed is Photo.objects.allowed_for_user, the pairs <<user, pk>>.
NoPhoto == 0
_get_photo_unfiltered(allowed, user, pk) == IF pk \in Photos THEN pk ELSE NoPhoto

_get_photo_if_allowed(allowed, user, pk) ==
    LET qs == IF ~has_perm(user) THEN {k \in Photos : <<user, k>> \in allowed}
              ELSE Photos
    IN  IF pk \in qs THEN pk ELSE NoPhoto

Repeat(c, n) == [i \in 1..n |-> c]

\* models.py is not part of the sources: a photo is stored under the
\* root, its thumbnail in a directory of the preset, and its file name
\* holds characters outside ASCII.
abspath(pk) == <<"/", "d", "/">> \o Repeat("x", pk)
thumbpath(pk) == <<"/", "d", "/", "d", "/">> \o Repeat("x", pk)
filename(pk) == Repeat("x", pk) \o <<"e'", "CJK", ".", "d">>

\* unicodedata.normalize('NFKD', c): "e'" (e with acute) decomposes to e and
\* the combining accent, the ideograph "CJK" to itself.
NFKD(c) == IF c = "e'" THEN <<"e", "'">> ELSE <<c>>
IsAscii(c) == c \in Alphabet \cup {"e", "."}

RECURSIVE normalize(_)
normalize(value) ==
    IF value = << >> THEN << >> ELSE NFKD(Head(value)) \o normalize(Tail(value))

\* Line 224: decompose, then drop what ASCII cannot encode.
asciify(value) == SelectSeq(normalize(value), IsAscii)

\* os.path.splitext of a name without directories: the extension starts at
\* the last dot, unless only dots precede it.
splitext(name) ==
    LET dots == {i \in 1..Len(name) : name[i] = "."}
        last == IF dots = {} THEN 0 ELSE CHOOSE i \in dots : \A j \in dots : j <= i
    IN  IF last = 0 \/ \A j \in 1..last : name[j] = "."
        THEN <<name, << >>>>
        ELSE <<SubSeq(name, 1, last - 1), SubSeq(name, last, Len(name))>>

\* settings.PHOTO_RESIZE_PRESETS: (width, height, crop) by preset.
Presets == {"thumb"}
PHOTO_RESIZE_PRESETS == [p \in Presets |-> <<3, 2, TRUE>>]
Digits == <<"1", "2", "3", "4", "5", "6", "7", "8", "9">>

NoView ==
    [pc |-> "idle", name |-> None, user |-> None, pk |-> 0, header |-> NoReq.header,
     photo |-> NoPhoto, path |-> << >>, response |-> Response(0, << >>, None),
     err |-> None, trace |-> << >>]

\* A request comes in for resized_photo or original_photo.
Request(name, user, pk, header) ==
    /\ view.pc = "idle"
    /\ view' = [NoView EXCEPT !.pc = "called", !.name = name, !.user = user,
                              !.pk = pk, !.header = header]
    /\ UNCHANGED <<call, fs, settings, req, out, acl, thumbs>>

\* Lines 140 and 153.
GetPhoto ==
    /\ view.pc = "called"
    /\ LET photo == _get_photo_if_allowed(acl, view.user, view.pk)
       IN  view' = [view EXCEPT
                !.trace = Append(@, "permission"),
                !.photo = photo,
                !.pc = IF photo = NoPhoto THEN "raised" ELSE "have_photo",
                !.err = IF photo = NoPhoto THEN "Http404" ELSE None]
    /\ UNCHANGED <<call, fs, settings, req, out, acl, thumbs>>

\* Line 141, photo.thumbnail(preset): the path of the preset's thumbnail,
\* which is made by make_thumbnail when it is not on the disk yet.
Thumbnail ==
    /\ view.pc = "have_photo"
    /\ view.name = "resized_photo"
    /\ \/ /\ view' = [view EXCEPT !.trace = Append(@, "thumbnail"), !.pc = "have_path",
                                  !.path = thumbpath(view.photo)]
          /\ thumbs' = IF \E t \in thumbs : t[1] = view.photo THEN thumbs
                       ELSE thumbs \cup {<<view.photo, view.user>>}
       \/ /\ \A t \in thumbs : t[1] # view.photo
          /\ \E err \in {"IOError", "NameError"} :
                view' = [view EXCEPT !.trace = Append(@, "thumbnail"), !.pc = "raised",
                                     !.err = err]
          /\ UNCHANGED thumbs
    /\ UNCHANGED <<call, fs, settings, req, out, acl>>

\* Line 154.
Abspath ==
    /\ view.pc = "have_photo"
    /\ view.name = "original_photo"
    /\ view' = [view EXCEPT !.trace = Append(@, "abspath"), !.pc = "have_path",
                            !.path = abspath(view.photo)]
    /\ UNCHANGED <<call, fs, settings, req, out, acl, thumbs>>

\* Lines 142 and 155.
ServeMedia(exists, st) ==
    /\ view.pc = "have_path"
    /\ LET got == serve_private_media(settings, view.header, view.path, exists, st)
       IN  view' = [view EXCEPT
                !.trace = Append(@, "serve"),
                !.response = got.response,
                !.pc = IF got.kind = "response" THEN "served" ELSE "raised",
                !.err = IF got.kind = "response" THEN None ELSE got.kind]
    /\ UNCHANGED <<call, fs, settings, req, out, acl, thumbs>>

\* Lines 144-148 and 157-159.
Disposition ==
    /\ view.pc = "served"
    /\ LET ascii == asciify(filename(view.photo))
           parts == splitext(ascii)
           preset == PHOTO_RESIZE_PRESETS["thumb"]
           ascii_filename ==
               IF view.name = "resized_photo"
               THEN parts[1] \o <<"_", Digits[preset[1]], "x", Digits[preset[2]]>> \o parts[2]
               ELSE ascii
       IN  view' = [view EXCEPT !.pc = "returned",
                                !.response.content_disposition = Header(ascii_filename)]
    /\ UNCHANGED <<call, fs, settings, req, out, acl, thumbs>>

\* The response or the exception has left the view.
Finish ==
    /\ view.pc \in {"returned", "raised"}
    /\ view' = NoView
    /\ UNCHANGED <<call, fs, settings, req, out, acl, thumbs>>

\* ------------------------------------------------------ specifications

Formats == {"JPEG", "PNG"}
Dims == 1..MaxDim
Orientations == (-MaxOrientation..MaxOrientation) \cup {NoTag}

\* The source files: a JPEG with any orientation tag or none, a PNG (which
\* carries none), and a file Image.open cannot read.
Sources ==
    {[readable |-> TRUE, size |-> <<w, h>>, format |-> "JPEG", orientation |-> o] :
        w \in Dims, h \in Dims, o \in Orientations}
    \cup {[readable |-> TRUE, size |-> <<w, h>>, format |-> "PNG", orientation |-> NoTag] :
        w \in Dims, h \in Dims}
    \cup {NoSrc}

\* The sources of the racing calls: the race is on the file, not the pixels.
RaceSources == {s \in Sources : s.size[1] = MaxDim /\ s.size[2] = 1 /\ s.orientation \in {6, NoTag}}

InitOther ==
    /\ settings = [DEBUG |-> FALSE, SENDFILE_ROOT |-> << >>]
    /\ req = NoReq
    /\ out = Raised("none")
    /\ acl = {}
    /\ view = NoView
    /\ thumbs = {}

InitEngine ==
    /\ call = [p \in Procs |-> Idle]
    /\ fs = [t \in ThumbPaths |-> Absent]
    /\ InitOther

NextEngine ==
    \/ /\ call[1].pc = "idle"
       /\ \E src \in Sources, size \in Dims \X Dims, docrop \in BOOLEAN :
             Call(1, src, "t1", size, docrop)
    \/ SaveOpen(1)
    \/ SaveWrite(1)
    \/ SaveDone(1)
    \/ Except(1)
    \/ Return(1)

SpecEngine == InitEngine /\ [][NextEngine]_vars

NextRace ==
    \E p \in Procs :
        \/ /\ call[p].pc = "idle"
           /\ \E src \in RaceSources, t \in ThumbPaths, docrop \in BOOLEAN :
                 Call(p, src, t, <<1, 1>>, docrop)
        \/ SaveOpen(p)
        \/ SaveWrite(p)
        \/ SaveDone(p)
        \/ Except(p)
        \/ Return(p)

SpecRace == InitEngine /\ [][NextRace]_vars

InitServe ==
    /\ settings \in [DEBUG : BOOLEAN, SENDFILE_ROOT : Roots]
    /\ req = NoReq
    /\ out = Raised("none")
    /\ call = [p \in Procs |-> Idle]
    /\ fs = [t \in ThumbPaths |-> Absent]
    /\ acl = {}
    /\ view = NoView
    /\ thumbs = {}

\* A file that exists has the stat the system reports; one that does not
\* has none.
NextServe ==
    \/ /\ out.kind = "none"
       /\ \E header \in Headers, path \in Paths, st \in Stats :
             Serve(header, path, TRUE, st)
    \/ /\ out.kind = "none"
       /\ \E header \in Headers, path \in Paths :
             Serve(header, path, FALSE, NoReq.st)
    \/ ServeReturn

SpecServe == InitServe /\ [][NextServe]_vars

ViewHeaders == {h \in Headers : h.kind = "absent" \/ (h.date = 0 /\ h.length = NoLength)}
ViewStat == [st_mtime |-> 0, st_size |-> 1, isreg |-> TRUE]

InitView ==
    /\ acl \in SUBSET ({"alice"} \X Photos)
    /\ view = NoView
    /\ thumbs = {}
    /\ settings \in [DEBUG : BOOLEAN, SENDFILE_ROOT : {<<"/", "d">>}]
    /\ req = NoReq
    /\ out = Raised("none")
    /\ call = [p \in Procs |-> Idle]
    /\ fs = [t \in ThumbPaths |-> Absent]

\* The thumbnail photo.thumbnail returned exists; the original may be gone.
NextView ==
    \/ /\ view.pc = "idle"
       /\ \E name \in {"resized_photo", "original_photo"}, user \in Users, pk \in Keys,
             header \in ViewHeaders : Request(name, user, pk, header)
    \/ GetPhoto
    \/ Thumbnail
    \/ Abspath
    \/ ServeMedia(TRUE, ViewStat)
    \/ /\ view.name = "original_photo"
       /\ ServeMedia(FALSE, NoReq.st)
    \/ Disposition
    \/ Finish

SpecView == InitView /\ [][NextView]_vars

\* ------------------------------------------------------------- claims

\* C1: if saving the thumbnail fails with an I/O error, then once
\* make_thumbnail has handed control back no file exists at the target path
\* and the caller gets the write error.
C1_WriteFailureLeavesNoFile ==
    (call[1].pc = "raised" /\ call[1].failed = "save") =>
        (fs[call[1].thumbpath] = Absent /\ call[1].err = "IOError")

\* C2: the file under a thumbnail path is never partially written: there is
\* no file, or a completely encoded thumbnail.
C2_NoPartialFileVisible ==
    \A t \in ThumbPaths : fs[t] = Absent \/ fs[t] = Complete

\* The call serve_private_media has answered.
Answered == out.kind # "none"
NonDebugOutsideRoot ==
    /\ Answered
    /\ ~settings.DEBUG
    /\ settings.SENDFILE_ROOT # << >>
    /\ req.exists
    /\ ~startswith(req.path, settings.SENDFILE_ROOT)

\* The header lets the file count as modified: it is absent or no date, it
\* is older than the file, or its length is not the file's size.
HeaderStale ==
    \/ req.header.kind # "date"
    \/ req.st.st_mtime > req.header.date * TicksPerSec
    \/ req.header.length # NoLength /\ req.header.length # req.st.st_size

\* C3 as stated: in non-debug mode, with a non-empty root and an existing
\* path that does not start with it, the call fails with the configuration
\* error whatever the If-Modified-Since header.
C3_OutsideRootAlwaysFails ==
    NonDebugOutsideRoot => out.kind = "ValueError"

\* C3 as amended: it fails with the configuration error when the header lets
\* the file count as modified, and answers 304 when it does not.
C3_OutsideRootFailsUnlessNotModified ==
    NonDebugOutsideRoot =>
        IF HeaderStale THEN out.kind = "ValueError"
        ELSE out.kind = "response" /\ out.response.status = 304

C3_Witness ==
    NonDebugOutsideRoot /\ req.header.kind = "date" /\ HeaderStale /\ out.kind = "ValueError"

\* path lies in the directory tree of root.
InTree(path, root) ==
    \/ path = root
    \/ startswith(path, IF root[Len(root)] = "/" THEN root ELSE root \o <<"/">>)

\* C4: with a non-empty root, a response that carries the delegation header
\* was produced for a path inside the directory tree of the root.
C4_DelegatedPathInsideRoot ==
    (/\ Answered
     /\ settings.SENDFILE_ROOT # << >>
     /\ out.kind = "response"
     /\ out.response.sendfile.set) => InTree(req.path, settings.SENDFILE_ROOT)

\* C5: a call on an existing path whose If-Modified-Since is the file's
\* modification time answers 304 with an empty body, in debug mode or not.
C5_EqualMtimeGives304 ==
    (/\ Answered
     /\ req.exists
     /\ req.header.kind = "date"
     /\ req.header.length = NoLength
     /\ req.header.date * TicksPerSec = req.st.st_mtime) =>
        (/\ out.kind = "response"
         /\ out.response.status = 304
         /\ out.response.body = << >>)

C5_Witness ==
    /\ Answered
    /\ req.exists
    /\ req.header.kind = "date"
    /\ req.header.length = NoLength
    /\ req.header.date * TicksPerSec = req.st.st_mtime
    /\ req.st.st_mtime > 0
    /\ req.st.st_size > 0
    /\ settings.DEBUG
    /\ out.response.status = 304

\* C6: a non-debug call that answers 200 sends no body, and the root followed
\* by the delegation header's value is the requested path.
C6_HeaderIsPathWithoutRoot ==
    (/\ Answered
     /\ ~settings.DEBUG
     /\ out.kind = "response"
     /\ out.response.status = 200) =>
        (/\ out.response.body = << >>
         /\ out.response.sendfile.set
         /\ settings.SENDFILE_ROOT \o out.response.sendfile.value = req.path)

C6_Witness ==
    /\ Answered
    /\ ~settings.DEBUG
    /\ out.kind = "response"
    /\ out.response.status = 200
    /\ settings.SENDFILE_ROOT = <<"/", "d">>
    /\ req.path = <<"/", "d", "/", "x">>
    /\ out.response.sendfile.value = <<"/", "x">>

\* The call has decoded its source and reached the pre-crop with crop set.
Cropping == call[1].pc \notin {"idle"} /\ call[1].failed # "open" /\ call[1].crop

\* C7: with crop set, the image passed to the resize step has the target's
\* aspect ratio within one pixel: cropped vertically its height h satisfies
\* h <= sw*th/tw < h+1 with width sw, cropped horizontally its width w
\* satisfies w <= sh*tw/th < w+1 with height sh, and with equal ratios it is
\* not cropped; (sw, sh) is the size of the image that enters the pre-crop.
C7_CropMatchesTargetAspect ==
    Cropping =>
        LET sw == call[1].rotated.size[1]
            sh == call[1].rotated.size[2]
            tw == call[1].size[1]
            th == call[1].size[2]
            w == call[1].precrop.size[1]
            h == call[1].precrop.size[2]
        IN  /\ tw * sh > sw * th => (w = sw /\ h * tw <= sw * th /\ sw * th < (h + 1) * tw)
            /\ tw * sh < sw * th => (h = sh /\ w * th <= sh * tw /\ sh * tw < (w + 1) * th)
            /\ tw * sh = sw * th => call[1].precrop = call[1].rotated

C7_Witness ==
    /\ Cropping
    /\ call[1].src.orientation = 6
    /\ call[1].rotated.size # call[1].decoded.size
    /\ call[1].size[1] * call[1].rotated.size[2] > call[1].rotated.size[1] * call[1].size[2]
    /\ (call[1].rotated.size[1] * call[1].size[2]) % call[1].size[1] # 0
    /\ call[1].precrop.size[2] > 0

\* C8: for a JPEG whose orientation tag is an integer outside 1..8, the image
\* handed to the crop and resize steps is the decoded image unchanged.
C8_OutOfRangeOrientationIsIdentity ==
    (/\ call[1].pc # "idle"
     /\ call[1].failed # "open"
     /\ call[1].src.format = "JPEG"
     /\ call[1].src.orientation # NoTag
     /\ call[1].src.orientation \notin 1..8) => call[1].rotated = call[1].decoded

\* The requester may view the photo.
Allowed(user, pk) == pk \in Photos /\ (has_perm(user) \/ <<user, pk>> \in acl)

IsPrefix(s, t) == Len(s) <= Len(t) /\ SubSeq(t, 1, Len(s)) = s

\* C9: the permission decision comes first. A request that is not allowed
\* ends with not found, without the thumbnail being looked up or made and
\* without serve_private_media being called; an allowed one checks the
\* permission, then gets the path, then serves.
C9_PermissionFirst ==
    /\ (view.pc # "idle" /\ ~Allowed(view.user, view.pk)) =>
          /\ IsPrefix(view.trace, <<"permission">>)
          /\ view.pc \in {"called", "raised"}
          /\ view.pc = "raised" => view.err = "Http404"
    /\ (view.pc # "idle" /\ Allowed(view.user, view.pk)) =>
          IsPrefix(view.trace,
                   <<"permission",
                     IF view.name = "resized_photo" THEN "thumbnail" ELSE "abspath",
                     "serve">>)
    /\ \A t \in thumbs : Allowed(t[2], t[1])

C9_Witness ==
    /\ view.pc = "raised"
    /\ view.name = "resized_photo"
    /\ view.pk \in Photos
    /\ ~Allowed(view.user, view.pk)
    /\ \A t \in thumbs : t[1] # view.pk
    /\ thumbs # {}

\* C10: a pre-crop box (left, top, right, bottom) lies inside the image and
\* has positive width and height.
C10_CropBoxInsideAndPositive ==
    (Cropping /\ call[1].box # NoBox) =>
        LET b == call[1].box
        IN  /\ 0 <= b[1] /\ b[1] < b[3] /\ b[3] <= call[1].rotated.size[1]
            /\ 0 <= b[2] /\ b[2] < b[4] /\ b[4] <= call[1].rotated.size[2]

====
